---------------------------- MODULE Spec2Model ----------------------------
(***************************************************************************)
(* A model of the native FFI shim of MagicWorld (native_ffi.c /            *)
(* native_ffi.h): the arithmetic and string primitives, the greeting       *)
(* allocator, the SystemInfo accessor and the two release functions.       *)
(*                                                                         *)
(* Three specifications share the variables:                               *)
(*   SpecPure  the stateless primitives native_add, native_string_length   *)
(*             and native_sum_array applied to bounded inputs;             *)
(*   Spec      the heap: native_get_greeting, native_free_string,          *)
(*             native_get_system_info, native_free_system_info, driven by  *)
(*             a caller that releases each handle it holds once;           *)
(*   SpecMT    the same functions called from several threads, one         *)
(*             statement of the C code per step.                           *)
(***************************************************************************)
EXTENDS Integers, Sequences, FiniteSets, TLC

VARIABLES
    call,       \* the last call made: its name, arguments and outcome
    heap,       \* the C heap: address -> block
    held,       \* the handles the caller holds and has not released yet
    clock,      \* wall-clock seconds, as time(NULL) reads them
    crashed,    \* the process was stopped by a trap (a faulting store)
    ub,         \* the undefined behaviours executed (a set of tags) by the
                \* last call (Spec) or the last statement (SpecMT)
    thr         \* SpecMT: each thread's program counter and locals

vars == <<call, heap, held, clock, crashed, ub, thr>>

(***************************************************************************)
(* int32_t and size_t.                                                     *)
(*                                                                         *)
(* TLC's integers are 32 bits wide themselves, so a value that may leave   *)
(* the int32_t range (the exact sum of two int32_t, a size_t) is kept as a *)
(* pair [hi, lo] standing for hi * 2^31 + lo with 0 <= lo < 2^31.          *)
(***************************************************************************)
INT32_MAX == 2147483647

INT32_MIN == -INT32_MAX - 1

\* The exact value of an int32_t.
Wide(n) ==
    IF n >= 0 THEN [hi |-> 0, lo |-> n]
              ELSE [hi |-> -1, lo |-> n - INT32_MIN]

\* Exact addition, with the carry out of the low 31 bits.
WideAdd(w, v) ==
    LET room == INT32_MAX - w.lo
    IN  IF v.lo <= room
        THEN [hi |-> w.hi + v.hi, lo |-> w.lo + v.lo]
        ELSE [hi |-> w.hi + v.hi + 1, lo |-> (v.lo - room) - 1]

\* Whether an exact value is representable in int32_t.
FitsInt32(w) == w.hi \in {-1, 0}

\* The value mod 2^32 read as a two's complement int32_t: what a conversion
\* to int32_t yields, and what a wrapping 32-bit addition yields.
ToInt32(w) == IF w.hi % 2 = 0 THEN w.lo ELSE w.lo + INT32_MIN

\* An outcome of a call: a returned value, or a trap that ends the process.
Ret(v) == [kind |-> "ret", val |-> v]

Trap == [kind |-> "trap", val |-> 0]

(***************************************************************************)
(* a + b on two int32_t (native_ffi.c:9, :45).  C leaves signed overflow   *)
(* undefined: the builds in use either wrap (plain two's complement code)  *)
(* or trap (-ftrapv, -fsanitize=signed-integer-overflow).                  *)
(***************************************************************************)
SignedAdd(a, b) ==
    LET exact == WideAdd(Wide(a), Wide(b))
    IN  IF FitsInt32(exact) THEN {Ret(ToInt32(exact))}
                            ELSE {Ret(ToInt32(exact)), Trap}

\* int32_t native_add(int32_t a, int32_t b)
native_add(a, b) == SignedAdd(a, b)

(***************************************************************************)
(* C strings.  A const char* argument is null or points at a text: the     *)
(* bytes before the terminator.  The text is `bytes` followed by `more`    *)
(* further non-zero bytes that are not spelled out (`more` is a size_t, so *)
(* that texts of 2^31 bytes and more can be passed).                       *)
(***************************************************************************)
NullStr == [null |-> TRUE, bytes |-> <<>>, more |-> Wide(0)]

Str(s) == [null |-> FALSE, bytes |-> s, more |-> Wide(0)]

LongStr(s, m) == [null |-> FALSE, bytes |-> s, more |-> m]

\* size_t strlen(const char*): the number of bytes before the terminator.
strlen(s) == WideAdd(Wide(Len(s.bytes)), s.more)

\* int32_t native_string_length(const char* str)
\* (a variant that counts the terminator too)
native_string_length_plusNul(str) ==
    IF str.null THEN 0 ELSE ToInt32(WideAdd(strlen(str), Wide(1)))

native_string_length(str) ==
    IF str.null THEN 0 ELSE ToInt32(strlen(str))

(***************************************************************************)
(* native_sum_array.  An array argument is null or points at `elems`.      *)
(* The loop is unrolled by SumLoop, which also collects the indices read.  *)
(***************************************************************************)
NullArr == [null |-> TRUE, elems |-> <<>>]

Arr(e) == [null |-> FALSE, elems |-> e]

SumRet(v, r) == [kind |-> "ret", val |-> v, reads |-> r]

SumTrap(r) == [kind |-> "trap", val |-> 0, reads |-> r]

RECURSIVE SumLoop(_, _, _, _, _)
\* for (int32_t i = 0; i < length; i++) sum += array[i];
SumLoop(array, length, i, sum, reads) ==
    IF ~(i < length)
    THEN {SumRet(sum, reads)}
    ELSE LET x     == array.elems[i + 1]
             rd    == reads \cup {i}
             exact == WideAdd(Wide(sum), Wide(x))
             next  == SumLoop(array, length, i + 1, ToInt32(exact), rd)
         IN  IF FitsInt32(exact) THEN next ELSE next \cup {SumTrap(rd)}

\* int32_t native_sum_array(const int32_t* array, int32_t length)
native_sum_array(array, length) ==
    IF array.null \/ length <= 0
    THEN {SumRet(0, {})}
    ELSE SumLoop(array, length, 0, 0, {})

(***************************************************************************)
(* The heap.  An address holds a block: free, or live with the size asked  *)
(* of malloc, the thread that allocated it, and its contents: a sequence   *)
(* of bytes for a char buffer, the three fields for a SystemInfo.          *)
(***************************************************************************)
MaxAddr == 6

Addr == 1..MaxAddr

NULL == 0

\* An indeterminate pointer or integer: what malloc'ed memory holds.
INDET == -1

\* An indeterminate byte, and the string terminator.
Garbage == "?"

NUL == "NUL"

FreeBlock == [live |-> FALSE, size |-> 0, owner |-> 0, mem |-> <<>>]

Chars(n) == [i \in 1..n |-> Garbage]

\* typedef struct { const char* platform; const char* version;
\*                  int64_t timestamp; } SystemInfo;
SystemInfoIndet ==
    [platform |-> INDET, version |-> INDET, timestamp |-> INDET]

SizeofSystemInfo == 24

\* The part of the process state the functions share.
Shared == [heap |-> heap, ub |-> ub, crashed |-> crashed]

\* The shared state as a call (a statement, in SpecMT) finds it.
Entry == [Shared EXCEPT !.ub = {}]

Flag(s, tag) == [s EXCEPT !.ub = @ \cup {tag}]

\* An access of thread t to the block at p: a block that is not live is a
\* use after free, a block another thread allocated is a foreign access.
Access(s, p, t) ==
    IF ~s.heap[p].live THEN Flag(s, "use_after_free")
    ELSE IF s.heap[p].owner # t THEN Flag(s, "foreign_access")
    ELSE s

\* The lowest address that holds no live block (there is one).
LowestFree(h) ==
    CHOOSE a \in DOMAIN h : ~h[a].live /\ \A b \in DOMAIN h : b < a => h[b].live

\* malloc(size): fails (always possible, and certain when no address is
\* free), or returns a block that is not live.  The functions only ever
\* test a pointer against NULL, so the reachable states are the same up to
\* a renaming of addresses whatever the allocator's placement; the model
\* places a block at the lowest free address, which also reuses a freed
\* address at once.
Malloc(s, size, init, t) ==
    {[ptr |-> NULL, s |-> s]} \cup
    {[ptr |-> a,
      s   |-> [s EXCEPT !.heap[a] =
                  [live |-> TRUE, size |-> size, owner |-> t, mem |-> init]]]
        : a \in {x \in DOMAIN s.heap :
                    ~s.heap[x].live /\ x = LowestFree(s.heap)}}

\* free(p), p not null: releasing a block that is not live is undefined.
Free(s, p, t) ==
    IF ~s.heap[p].live
    THEN Flag(s, "bad_free")
    ELSE [Access(s, p, t) EXCEPT !.heap[p] = FreeBlock]

\* A store through a null pointer is undefined: the build traps (an
\* unmapped page 0) or the bytes land at address 0, which no function of
\* the module reads, and the call goes on.
NullStore(s) ==
    {[Flag(s, "null_store") EXCEPT !.crashed = TRUE], Flag(s, "null_store")}

\* Bytes written at the start of the char buffer at p (p not null); bytes
\* beyond the block's size are a heap overflow.
StoreChars(s, p, bytes, t) ==
    LET blk == s.heap[p]
        s1  == IF Len(bytes) > blk.size THEN Flag(s, "heap_overflow") ELSE s
        s2  == Access(s1, p, t)
    IN  IF ~blk.live THEN s2
        ELSE [s2 EXCEPT !.heap[p].mem =
                 [i \in 1..blk.size |->
                     IF i <= Len(bytes) THEN bytes[i] ELSE blk.mem[i]]]

\* The text of the C string at p: the bytes before the first terminator
\* (all of the buffer when there is none).
CStringAt(h, p) ==
    LET m    == h[p].mem
        nuls == {i \in 1..Len(m) : m[i] = NUL}
    IN  IF nuls = {} THEN m
        ELSE SubSeq(m, 1, (CHOOSE i \in nuls : \A j \in nuls : i <= j) - 1)

Hello == <<"H", "e", "l", "l", "o", ",", " ">>

Bang == <<"!">>

World == <<"W", "o", "r", "l", "d">>

iOS == <<"i", "O", "S">>

v100 == <<"1", ".", "0", ".", "0">>

\* strcpy(dst, src): the bytes of src and its terminator.
strcpy(s, dst, src, t) ==
    IF dst = NULL THEN NullStore(s)
                  ELSE {StoreChars(s, dst, src \o <<NUL>>, t)}

\* snprintf(buf, n, "Hello, %s!", name): at most n - 1 bytes of the
\* formatted text, then the terminator; nothing when n = 0.
snprintf(s, buf, n, name, t) ==
    LET text == Hello \o name.bytes \o Bang
        k    == IF Len(text) < n - 1 THEN Len(text) ELSE n - 1
    IN  IF n = 0 THEN s
        ELSE StoreChars(s, buf, SubSeq(text, 1, k) \o <<NUL>>, t)

(***************************************************************************)
(* The functions that use the heap, one C statement per step.  A frame     *)
(* holds a call's position and locals; a step maps a frame and the shared  *)
(* state to the set of frames and shared states the statement can leave.   *)
(* `allocs` and `freed` log the results of the call's malloc calls and the *)
(* pointers it passed to free, in order.                                   *)
(***************************************************************************)
Idle ==
    [fn |-> "none", pc |-> "idle", name |-> NullStr, greeting_size |-> 0,
     greeting |-> NULL, str |-> NULL, info |-> NULL, platform |-> NULL,
     version |-> NULL, ret |-> NULL, allocs |-> <<>>, freed |-> <<>>,
     args |-> <<>>, out |-> <<>>]

Enter(fn, pc) == [Idle EXCEPT !.fn = fn, !.pc = pc]

Out(f, s) == [f |-> f, s |-> s]

\* ---- const char* native_get_greeting(const char* name)

\* strlen("Hello, ") + strlen(name) + strlen("!") + 1; the names passed
\* are spelled out in full, so the size fits the low part.
GreetingSize_noTerminator(name) ==
    WideAdd(WideAdd(strlen(Str(Hello)), strlen(name)), strlen(Str(Bang))).lo

GreetingSize(name) ==
    WideAdd(WideAdd(WideAdd(strlen(Str(Hello)), strlen(name)),
                    strlen(Str(Bang))), Wide(1)).lo

\* if (name == NULL) name = "World"; greeting = malloc(greeting_size);
get_greeting_malloc(f, s, t) ==
    LET name == IF f.name.null THEN Str(World) ELSE f.name
        size == GreetingSize(name)
    IN  {Out([f EXCEPT !.name = name, !.greeting_size = size,
                       !.greeting = m.ptr, !.allocs = Append(@, m.ptr),
                       !.pc = "g_snprintf"], m.s)
            : m \in Malloc(s, size, Chars(size), t)}

\* if (greeting != NULL) snprintf(...); return greeting;
get_greeting_snprintf_unchecked(f, s, t) ==
    IF f.greeting # NULL
    THEN {Out([f EXCEPT !.pc = "done", !.ret = f.greeting],
              snprintf(s, f.greeting, f.greeting_size, f.name, t))}
    ELSE {Out(IF s1.crashed THEN f ELSE [f EXCEPT !.pc = "done", !.ret = NULL],
              s1) : s1 \in NullStore(s)}

get_greeting_snprintf(f, s, t) ==
    {Out([f EXCEPT !.pc = "done", !.ret = f.greeting],
         IF f.greeting # NULL
         THEN snprintf(s, f.greeting, f.greeting_size, f.name, t)
         ELSE s)}

native_get_greeting(f, s, t) ==
    CASE f.pc = "g_malloc"   -> get_greeting_malloc(f, s, t)
      [] f.pc = "g_snprintf" -> get_greeting_snprintf(f, s, t)

\* ---- void native_free_string(char* str)
native_free_string(f, s, t) ==
    IF f.str # NULL
    THEN {Out([f EXCEPT !.pc = "done", !.freed = Append(@, f.str)],
              Free(s, f.str, t))}
    ELSE {Out([f EXCEPT !.pc = "done"], s)}

\* ---- SystemInfo* native_get_system_info(void)

\* info->field = val, info not null.
StoreField(s, info, field, val, t) ==
    LET s1 == Access(s, info, t)
    IN  IF ~s.heap[info].live THEN s1
        ELSE [s1 EXCEPT !.heap[info].mem[field] = val]

\* info = malloc(sizeof(SystemInfo)); if (info == NULL) return NULL;
get_system_info_malloc(f, s, t) ==
    {Out(IF m.ptr = NULL
         THEN [f EXCEPT !.allocs = Append(@, m.ptr), !.pc = "done", !.ret = NULL]
         ELSE [f EXCEPT !.allocs = Append(@, m.ptr), !.info = m.ptr,
                        !.pc = "si_platform_malloc"],
         m.s)
        : m \in Malloc(s, SizeofSystemInfo, SystemInfoIndet, t)}

\* char* platform = (char*)malloc(4);
PlatformSize == 4

get_system_info_platform_malloc(f, s, t) ==
    {Out([f EXCEPT !.allocs = Append(@, m.ptr), !.platform = m.ptr,
                   !.pc = "si_platform_strcpy"], m.s)
        : m \in Malloc(s, PlatformSize, Chars(PlatformSize), t)}

\* strcpy(platform, "iOS");
get_system_info_platform_strcpy(f, s, t) ==
    {Out(IF s1.crashed THEN f ELSE [f EXCEPT !.pc = "si_platform_store"], s1)
        : s1 \in strcpy(s, f.platform, iOS, t)}

\* info->platform = platform;
get_system_info_platform_store(f, s, t) ==
    {Out([f EXCEPT !.pc = "si_version_malloc"],
         StoreField(s, f.info, "platform", f.platform, t))}

\* char* version = (char*)malloc(6);
VersionSize == 6

get_system_info_version_malloc_shared(f, s, t) ==
    {Out([f EXCEPT !.version = f.platform, !.pc = "si_version_strcpy"], s)}

get_system_info_version_malloc(f, s, t) ==
    {Out([f EXCEPT !.allocs = Append(@, m.ptr), !.version = m.ptr,
                   !.pc = "si_version_strcpy"], m.s)
        : m \in Malloc(s, VersionSize, Chars(VersionSize), t)}

\* strcpy(version, "1.0.0");
get_system_info_version_strcpy(f, s, t) ==
    {Out(IF s1.crashed THEN f ELSE [f EXCEPT !.pc = "si_version_store"], s1)
        : s1 \in strcpy(s, f.version, v100, t)}

\* info->version = version;
get_system_info_version_store(f, s, t) ==
    {Out([f EXCEPT !.pc = "si_timestamp"],
         StoreField(s, f.info, "version", f.version, t))}

\* info->timestamp = (int64_t)time(NULL); return info;
get_system_info_timestamp(f, s, now, t) ==
    {Out([f EXCEPT !.pc = "done", !.ret = f.info],
         StoreField(s, f.info, "timestamp", now, t))}

native_get_system_info(f, s, now, t) ==
    CASE f.pc = "si_malloc"          -> get_system_info_malloc(f, s, t)
      [] f.pc = "si_platform_malloc" -> get_system_info_platform_malloc(f, s, t)
      [] f.pc = "si_platform_strcpy" -> get_system_info_platform_strcpy(f, s, t)
      [] f.pc = "si_platform_store"  -> get_system_info_platform_store(f, s, t)
      [] f.pc = "si_version_malloc"  -> get_system_info_version_malloc(f, s, t)
      [] f.pc = "si_version_strcpy"  -> get_system_info_version_strcpy(f, s, t)
      [] f.pc = "si_version_store"   -> get_system_info_version_store(f, s, t)
      [] f.pc = "si_timestamp"       -> get_system_info_timestamp(f, s, now, t)

\* ---- void native_free_system_info(SystemInfo* info)

\* if (info->field != NULL) free((void*)info->field);
FreeField(f, s, field, next, t) ==
    LET p == s.heap[f.info].mem[field]
    IN  IF p # NULL
        THEN Out([f EXCEPT !.pc = next, !.freed = Append(@, p)],
                 IF p \in DOMAIN s.heap THEN Free(Access(s, f.info, t), p, t)
                                        ELSE Flag(s, "bad_free"))
        ELSE Out([f EXCEPT !.pc = next], Access(s, f.info, t))

\* if (info != NULL) { if (info->platform != NULL) free(info->platform);
free_system_info_platform_unchecked(f, s, t) ==
    IF f.info = NULL
    THEN {Out(f, [Flag(s, "null_load") EXCEPT !.crashed = TRUE])}
    ELSE {FreeField(f, s, "platform", "fi_version", t)}

free_system_info_platform(f, s, t) ==
    IF f.info = NULL THEN {Out([f EXCEPT !.pc = "done"], s)}
    ELSE IF ~s.heap[f.info].live
    THEN {Out([f EXCEPT !.pc = "done"], Flag(s, "use_after_free"))}
    ELSE {FreeField(f, s, "platform", "fi_version", t)}

\* if (info->version != NULL) free(info->version);
free_system_info_version_skipped(f, s, t) ==
    {Out([f EXCEPT !.pc = "fi_info"], s)}

free_system_info_version(f, s, t) ==
    {FreeField(f, s, "version", "fi_info", t)}

\* free(info); }
free_system_info_info(f, s, t) ==
    {Out([f EXCEPT !.pc = "done", !.freed = Append(@, f.info)],
         Free(s, f.info, t))}

native_free_system_info(f, s, t) ==
    CASE f.pc = "fi_platform" -> free_system_info_platform(f, s, t)
      [] f.pc = "fi_version"  -> free_system_info_version(f, s, t)
      [] f.pc = "fi_info"     -> free_system_info_info(f, s, t)

\* One statement of the call in frame f, made by thread t at time `now`.
Step(f, s, now, t) ==
    CASE f.fn = "native_get_greeting"     -> native_get_greeting(f, s, t)
      [] f.fn = "native_free_string"      -> native_free_string(f, s, t)
      [] f.fn = "native_get_system_info"  -> native_get_system_info(f, s, now, t)
      [] f.fn = "native_free_system_info" -> native_free_system_info(f, s, t)

RECURSIVE Run(_, _, _, _)
\* The call in frame f run to its return (or to the trap that ends it).
Run(f, s, now, t) ==
    IF f.pc = "done" \/ s.crashed
    THEN {Out(f, s)}
    ELSE UNION {Run(o.f, o.s, now, t) : o \in Step(f, s, now, t)}

(***************************************************************************)
(* The inputs the callers draw from.                                       *)
(***************************************************************************)
MaxNameLen == 1

MaxArrayLen == 3

MaxClock == 1

\* The most handles the caller holds unreleased at a time.
MaxHeld == 2

Alphabet == {"A", "!"}

Names == UNION {[1..n -> Alphabet] : n \in 0..MaxNameLen}

\* The names passed to native_get_greeting: none, empty, and the
\* specification's example.
NameArgs == {NullStr, Str(<<>>), Str(<<"A", "d", "a">>)}

\* Text lengths around the int32_t limits: 2^31 - 1 bytes and fewer, 2^31,
\* 2^32 and beyond.
MoreBytes ==
    {Wide(0), Wide(INT32_MAX - MaxNameLen), Wide(INT32_MAX - MaxNameLen + 1),
     [hi |-> 1, lo |-> 0], [hi |-> 1, lo |-> 5], [hi |-> 2, lo |-> 0],
     [hi |-> 3, lo |-> 7]}

TextArgs == {NullStr} \cup {LongStr(n, m) : n \in Names, m \in MoreBytes}

AddInputs ==
    {INT32_MIN, INT32_MIN + 1, -2, -1, 0, 1, 2, INT32_MAX - 1, INT32_MAX}

ElemVals == {INT32_MIN, -1, 1, 2, 3, INT32_MAX}

Arrays == UNION {[1..n -> ElemVals] : n \in 0..MaxArrayLen}

\* The caller guarantees `length` valid elements behind a non-null array.
SumArgs ==
    {<<NullArr, n>> : n \in {INT32_MIN, -1, 0, 1, MaxArrayLen, INT32_MAX}} \cup
    {<<Arr(e), n>> : e \in Arrays, n \in {INT32_MIN, -1, 0} \cup 1..MaxArrayLen}

Threads == {1, 2}

IdleThread == [f |-> Idle, strings |-> {}, infos |-> {}]

\* The state after the library is loaded: nothing allocated, no call made.
Boot ==
    /\ heap = [a \in Addr |-> FreeBlock]
    /\ held = [strings |-> {}, infos |-> {}]
    /\ clock = 0
    /\ crashed = FALSE
    /\ ub = {}
    /\ thr = [t \in Threads |-> IdleThread]

(***************************************************************************)
(* SpecPure: the stateless primitives.  The initial state draws a call and *)
(* its arguments, the action of the function called applies it.            *)
(***************************************************************************)
PureCalls ==
    {[op |-> "native_add", a |-> a, b |-> b, done |-> FALSE]
        : a \in AddInputs, b \in AddInputs} \cup
    {[op |-> "native_string_length", str |-> str, done |-> FALSE]
        : str \in TextArgs} \cup
    {[op |-> "native_sum_array", array |-> x[1], length |-> x[2], done |-> FALSE]
        : x \in {y \in SumArgs : y[1].null \/ y[2] <= Len(y[1].elems)}}

InitPure == Boot /\ call \in PureCalls

Add ==
    /\ call.op = "native_add" /\ ~call.done
    /\ \E out \in native_add(call.a, call.b) :
          call' = [op |-> "native_add", a |-> call.a, b |-> call.b,
                   done |-> TRUE, out |-> out]
    /\ UNCHANGED <<heap, held, clock, crashed, ub, thr>>

StringLength ==
    /\ call.op = "native_string_length" /\ ~call.done
    /\ call' = [op |-> "native_string_length", str |-> call.str, done |-> TRUE,
                out |-> native_string_length(call.str)]
    /\ UNCHANGED <<heap, held, clock, crashed, ub, thr>>

SumArray ==
    /\ call.op = "native_sum_array" /\ ~call.done
    /\ \E out \in native_sum_array(call.array, call.length) :
          call' = [op |-> "native_sum_array", array |-> call.array,
                   length |-> call.length, done |-> TRUE, out |-> out]
    /\ UNCHANGED <<heap, held, clock, crashed, ub, thr>>

NextPure == Add \/ StringLength \/ SumArray

SpecPure == InitPure /\ [][NextPure]_vars

(***************************************************************************)
(* Properties of the primitives.                                           *)
(***************************************************************************)
RECURSIVE ArithSum(_, _)
\* The exact sum of the first n elements of e.
ArithSum(e, n) ==
    IF n = 0 THEN Wide(0) ELSE WideAdd(ArithSum(e, n - 1), Wide(e[n]))

\* The number of bytes of a text before its terminator.
ByteCount(str) == WideAdd(str.more, Wide(Len(str.bytes)))

\* C1: for all int32_t a and b, native_add(a, b) returns (a + b) mod 2^32
\* read as a signed 32-bit value; overflow wraps and is never an error.
C1_AddWraps ==
    (call.op = "native_add" /\ call.done) =>
        call.out = Ret(ToInt32(WideAdd(Wide(call.a), Wide(call.b))))

\* C2: native_sum_array returns 0 when the array is null or length <= 0;
\* otherwise it returns the arithmetic sum of array[0..length-1], reading
\* exactly those indices.
C2_SumArray ==
    (call.op = "native_sum_array" /\ call.done) =>
        IF call.array.null \/ call.length <= 0
        THEN call.out = SumRet(0, {})
        ELSE /\ call.out.kind = "ret"
             /\ Wide(call.out.val) = ArithSum(call.array.elems, call.length)
             /\ call.out.reads = 0..(call.length - 1)

\* C4, as claimed: native_string_length(null) is 0, and for every non-null
\* text it is the number of bytes before the terminator.
C4_StringLengthAnyText ==
    (call.op = "native_string_length" /\ call.done) =>
        IF call.str.null THEN call.out = 0
        ELSE call.out >= 0 /\ Wide(call.out) = ByteCount(call.str)

\* C4, amended: native_string_length(null) is 0, and for every non-null
\* text of at most 2^31 - 1 bytes it is the number of bytes before the
\* terminator.
C4_StringLength ==
    (call.op = "native_string_length" /\ call.done) =>
        IF call.str.null THEN call.out = 0
        ELSE ByteCount(call.str).hi = 0 =>
                call.out = ByteCount(call.str).lo

\* A text of exactly 2^31 - 1 bytes was measured.
C4_Witness ==
    /\ call.op = "native_string_length" /\ call.done
    /\ ~call.str.null
    /\ ByteCount(call.str) = Wide(INT32_MAX)
    /\ call.out = INT32_MAX

(***************************************************************************)
(* Spec: one caller, each call run to its return.  The caller keeps the    *)
(* non-null handles it was given and releases each of them once, through   *)
(* the release function of its kind; it may also pass null.                *)
(***************************************************************************)
Commit(o, op, arg) ==
    /\ heap' = o.s.heap
    /\ ub' = o.s.ub
    /\ crashed' = o.s.crashed
    /\ call' = [op |-> op, arg |-> arg, ret |-> o.f.ret,
                trapped |-> o.s.crashed, allocs |-> o.f.allocs,
                freed |-> o.f.freed, at |-> clock]

Init == Boot /\ call = [op |-> "none"]

NHeld == Cardinality(held.strings) + Cardinality(held.infos)

GetGreeting ==
    /\ ~crashed
    /\ NHeld < MaxHeld
    /\ \E name \in NameArgs :
        \E o \in Run([Enter("native_get_greeting", "g_malloc")
                         EXCEPT !.name = name], Entry, clock, 1) :
            /\ Commit(o, "native_get_greeting", name)
            /\ held' = IF o.f.pc = "done" /\ o.f.ret # NULL
                       THEN [held EXCEPT !.strings = @ \cup {o.f.ret}]
                       ELSE held
    /\ UNCHANGED <<clock, thr>>

FreeString ==
    /\ ~crashed
    /\ \E str \in held.strings \cup {NULL} :
        \E o \in Run([Enter("native_free_string", "fs_free")
                         EXCEPT !.str = str], Entry, clock, 1) :
            /\ Commit(o, "native_free_string", str)
            /\ held' = [held EXCEPT !.strings = @ \ {str}]
    /\ UNCHANGED <<clock, thr>>

GetSystemInfo ==
    /\ ~crashed
    /\ NHeld < MaxHeld
    /\ \E o \in Run(Enter("native_get_system_info", "si_malloc"),
                    Entry, clock, 1) :
            /\ Commit(o, "native_get_system_info", NULL)
            /\ held' = IF o.f.pc = "done" /\ o.f.ret # NULL
                       THEN [held EXCEPT !.infos = @ \cup {o.f.ret}]
                       ELSE held
    /\ UNCHANGED <<clock, thr>>

FreeSystemInfo ==
    /\ ~crashed
    /\ \E info \in held.infos \cup {NULL} :
        \E o \in Run([Enter("native_free_system_info", "fi_platform")
                         EXCEPT !.info = info], Entry, clock, 1) :
            /\ Commit(o, "native_free_system_info", info)
            /\ held' = [held EXCEPT !.infos = @ \ {info}]
    /\ UNCHANGED <<clock, thr>>

\* A second of wall-clock time passes.
Tick ==
    /\ ~crashed
    /\ clock < MaxClock
    /\ clock' = clock + 1
    /\ call' = [op |-> "tick"]
    /\ UNCHANGED <<heap, held, crashed, ub, thr>>

Next == GetGreeting \/ FreeString \/ GetSystemInfo \/ FreeSystemInfo \/ Tick

Spec == Init /\ [][Next]_vars

(***************************************************************************)
(* SpecMT: the threads call the functions concurrently, with no lock.  A   *)
(* thread enters a call, executes it one statement at a time, each         *)
(* statement interleaved with those of the other threads, and returns; it  *)
(* releases only the handles it was given itself, and holds one handle at  *)
(* a time.  malloc and free are                                            *)
(* the C library's, which are atomic.  The clock stands still: what        *)
(* time(NULL) reads is Spec's matter.                                      *)
(***************************************************************************)
\* The calls of the stateless primitives a thread makes.
PureArgs ==
    {<<"native_add", INT32_MAX - 1, 1>>,
     <<"native_string_length", Str(<<"A", "d", "a">>)>>,
     <<"native_sum_array", Arr(<<1, 2, 3>>), 3>>}

\* What the primitive called with `args` can return.
PureOut(args) ==
    CASE args[1] = "native_add" -> native_add(args[2], args[3])
      [] args[1] = "native_string_length" -> {Ret(native_string_length(args[2]))}
      [] args[1] = "native_sum_array" -> native_sum_array(args[2], args[3])

InitMT == Boot /\ call = [op |-> "none"]

Running(t) == thr[t].f.pc \notin {"idle", "done"}

CanCall(t) == ~crashed /\ thr[t].f.pc = "idle"

\* A thread releases the handle it holds before it asks for another.
CanAcquire(t) == thr[t].strings = {} /\ thr[t].infos = {}

MTCallPure(t) ==
    /\ CanCall(t)
    /\ \E args \in PureArgs : \E out \in PureOut(args) :
          /\ crashed' = (out.kind = "trap")
          /\ thr' = IF out.kind = "trap" THEN thr
                    ELSE [thr EXCEPT ![t].f = [Enter(args[1], "done") EXCEPT
                                                  !.args = args, !.out = out]]
    /\ UNCHANGED <<call, heap, held, clock, ub>>

MTCallGetGreeting(t) ==
    /\ CanCall(t) /\ CanAcquire(t)
    /\ \E name \in NameArgs :
          thr' = [thr EXCEPT
                     ![t].f = [Enter("native_get_greeting", "g_malloc")
                                  EXCEPT !.name = name]]
    /\ UNCHANGED <<call, heap, held, clock, crashed, ub>>

MTCallFreeString(t) ==
    /\ CanCall(t)
    /\ \E str \in thr[t].strings \cup {NULL} :
          thr' = [thr EXCEPT
                     ![t].f = [Enter("native_free_string", "fs_free")
                                  EXCEPT !.str = str],
                     ![t].strings = @ \ {str}]
    /\ UNCHANGED <<call, heap, held, clock, crashed, ub>>

MTCallGetSystemInfo(t) ==
    /\ CanCall(t) /\ CanAcquire(t)
    /\ thr' = [thr EXCEPT
                  ![t].f = Enter("native_get_system_info", "si_malloc")]
    /\ UNCHANGED <<call, heap, held, clock, crashed, ub>>

MTCallFreeSystemInfo(t) ==
    /\ CanCall(t)
    /\ \E info \in thr[t].infos \cup {NULL} :
          thr' = [thr EXCEPT
                     ![t].f = [Enter("native_free_system_info", "fi_platform")
                                  EXCEPT !.info = info],
                     ![t].infos = @ \ {info}]
    /\ UNCHANGED <<call, heap, held, clock, crashed, ub>>

\* Thread t executes the next statement of its call.
MTStep(t) ==
    /\ ~crashed /\ Running(t)
    /\ \E o \in Step(thr[t].f, Entry, clock, t) :
          /\ thr' = [thr EXCEPT ![t].f = o.f]
          /\ heap' = o.s.heap
          /\ ub' = o.s.ub
          /\ crashed' = o.s.crashed
    /\ UNCHANGED <<call, held, clock>>

\* The call of thread t returns: the thread keeps a non-null handle.
MTReturn(t) ==
    /\ ~crashed /\ thr[t].f.pc = "done"
    /\ LET f == thr[t].f
       IN  thr' = [thr EXCEPT
                      ![t].f = Idle,
                      ![t].strings =
                          IF f.fn = "native_get_greeting" /\ f.ret # NULL
                          THEN @ \cup {f.ret} ELSE @,
                      ![t].infos =
                          IF f.fn = "native_get_system_info" /\ f.ret # NULL
                          THEN @ \cup {f.ret} ELSE @]
    /\ UNCHANGED <<call, heap, held, clock, crashed, ub>>

NextMT ==
    \E t \in Threads :
          \/ MTCallPure(t)
          \/ MTCallGetGreeting(t)
          \/ MTCallFreeString(t)
          \/ MTCallGetSystemInfo(t)
          \/ MTCallFreeSystemInfo(t)
          \/ MTStep(t)
          \/ MTReturn(t)

SpecMT == InitMT /\ [][NextMT]_vars

(***************************************************************************)
(* Properties of the heap functions under Spec.  `call` describes the call *)
(* a step made, so a property of a call is a property of the step that     *)
(* sets `call`: the unprimed variables are the state the call found.       *)
(***************************************************************************)
Live(h) == {a \in DOMAIN h : h[a].live}

\* The text a greeting for `arg` must hold.
GreetingText(arg) ==
    Hello \o (IF arg.null THEN World ELSE arg.bytes) \o Bang

C3_Step ==
    call'.op = "native_get_greeting" =>
        /\ ~call'.trapped /\ ub' = {}
        /\ Len(call'.allocs) = 1
        /\ call'.ret = call'.allocs[1]
        /\ call'.ret = NULL => heap' = heap
        /\ call'.ret # NULL =>
              /\ call'.ret \notin Live(heap)
              /\ \A a \in Addr \ {call'.ret} : heap'[a] = heap[a]
              /\ heap'[call'.ret].live
              /\ heap'[call'.ret].size = Len(GreetingText(call'.arg)) + 1
              /\ heap'[call'.ret].mem = GreetingText(call'.arg) \o <<NUL>>

ReleaseOrder(h, info) ==
    SelectSeq(<<h[info].mem.platform, h[info].mem.version, info>>,
              LAMBDA p : p # NULL)

C5_Step ==
    /\ ub' \cap {"bad_free", "use_after_free"} = {}
    /\ (~crashed' /\ held'.strings = {} /\ held'.infos = {}) => Live(heap') = {}
    /\ (call'.op = "native_free_string" /\ call'.arg # NULL) =>
          /\ call'.freed = <<call'.arg>>
          /\ Live(heap') = Live(heap) \ {call'.arg}
    /\ (call'.op = "native_free_system_info" /\ call'.arg # NULL) =>
          /\ call'.freed = ReleaseOrder(heap, call'.arg)
          /\ Live(heap') = Live(heap) \ {call'.freed[i] : i \in 1..Len(call'.freed)}

\* C5: when every non-null greeting has been passed once to
\* native_free_string and every non-null record once to
\* native_free_system_info, no allocation of the module is live and none
\* was freed twice; native_free_system_info frees the platform buffer, the
\* version buffer and then the record.
C5_RoundTrip == [][C5_Step]_vars

\* A complete record was just released and nothing is left allocated.
C5_Witness ==
    /\ call.op = "native_free_system_info"
    /\ Len(call.freed) = 3
    /\ held.strings = {} /\ held.infos = {}
    /\ Live(heap) = {}

\* The blocks of the record at info.
RecordBlocks(h, info) ==
    {info, h[info].mem.platform, h[info].mem.version} \ {NULL}

\* A call of native_get_system_info is successful when it returns a record
\* and none of its allocations failed.
C6_Step ==
    (/\ call'.op = "native_get_system_info"
     /\ call'.ret # NULL
     /\ \A i \in 1..Len(call'.allocs) : call'.allocs[i] # NULL) =>
        LET info == call'.ret
            rec  == heap'[info].mem
        IN  /\ ~call'.trapped /\ ub' = {}
            /\ call'.allocs = <<info, rec.platform, rec.version>>
            /\ Cardinality({info, rec.platform, rec.version}) = 3
            /\ {info, rec.platform, rec.version} \cap Live(heap) = {}
            /\ \A r \in held.infos :
                  RecordBlocks(heap', r) \cap {info, rec.platform, rec.version} = {}
            /\ \A a \in Live(heap) : heap'[a] = heap[a]
            /\ heap'[rec.platform].live /\ heap'[rec.version].live
            /\ heap'[rec.platform].mem = iOS \o <<NUL>>
            /\ heap'[rec.version].mem = v100 \o <<NUL>>
            /\ rec.timestamp = clock

\* C6: every successful call of native_get_system_info returns a record
\* whose platform is the text "iOS", whose version is the text "1.0.0" and
\* whose timestamp is the clock read during the call; the record and its
\* two buffers are three fresh allocations, shared with no earlier record.
C6_SystemInfo == [][C6_Step]_vars

\* A second record was returned while an earlier one is still held, after
\* the clock has moved.
C6_Witness ==
    /\ call.op = "native_get_system_info"
    /\ call.ret # NULL
    /\ Len(call.allocs) = 3 /\ \A i \in 1..3 : call.allocs[i] # NULL
    /\ Cardinality(held.infos) = 2
    /\ clock > 0
    /\ heap[call.ret].mem.timestamp = clock

C7_Step ==
    (/\ call'.op \in {"native_get_greeting", "native_get_system_info"}
     /\ call'.allocs[1] = NULL) =>
        /\ call'.ret = NULL
        /\ ~call'.trapped /\ ub' = {}
        /\ Len(call'.allocs) = 1
        /\ heap' = heap

\* C7: when the first allocation of native_get_greeting or of
\* native_get_system_info fails, the function returns null, writes to no
\* buffer and leaves no allocation of its own live.
C7_FirstAllocFails == [][C7_Step]_vars

\* The allocation of a greeting failed while another handle was held.
C7_Witness ==
    /\ call.op = "native_get_greeting"
    /\ call.allocs = <<NULL>>
    /\ call.ret = NULL
    /\ Live(heap) # {}

C8_Step ==
    (/\ call'.op \in {"native_free_string", "native_free_system_info"}
     /\ call'.arg = NULL) =>
        /\ call'.freed = <<>>
        /\ ~call'.trapped /\ ub' = {}
        /\ heap' = heap
        /\ held' = held

\* C8: native_free_string(null) and native_free_system_info(null) free
\* nothing and leave every live allocation unchanged, in any heap state.
C8_FreeNull == [][C8_Step]_vars

\* native_free_system_info(null) was called with allocations live.
C8_Witness ==
    /\ call.op = "native_free_system_info"
    /\ call.arg = NULL
    /\ Live(heap) # {}

\* C10: native_get_system_info is all-or-nothing for every pattern of
\* allocation failures: it returns null with none of its allocations live,
\* or a record whose platform and version are non-null initialised strings;
\* it never writes through a null pointer.
C10_AllOrNothing ==
    call.op = "native_get_system_info" =>
        /\ ~call.trapped
        /\ "null_store" \notin ub
        /\ IF call.ret = NULL
           THEN \A i \in 1..Len(call.allocs) :
                   call.allocs[i] # NULL => ~heap[call.allocs[i]].live
           ELSE LET rec == heap[call.ret].mem
                IN  /\ rec.platform \in Live(heap)
                    /\ rec.version \in Live(heap)
                    /\ NUL \in {heap[rec.platform].mem[i] : i \in 1..PlatformSize}
                    /\ NUL \in {heap[rec.version].mem[i] : i \in 1..VersionSize}

(***************************************************************************)
(* Properties of concurrent calls under SpecMT.                            *)
(***************************************************************************)
\* What the caller can observe of a returned call: the value of a
\* primitive, the text of a greeting, the texts and timestamp of a record
\* (nothing for a null result or a release).
TextAt(h, p) == IF p = NULL THEN <<>> ELSE <<h[p].mem>>

Result(f, h) ==
    CASE f.fn = "native_get_greeting" -> TextAt(h, f.ret)
      [] f.fn = "native_get_system_info" ->
            IF f.ret = NULL THEN <<>>
            ELSE <<TextAt(h, h[f.ret].mem.platform),
                   TextAt(h, h[f.ret].mem.version), h[f.ret].mem.timestamp>>
      [] f.fn \in {"native_free_string", "native_free_system_info"} -> <<>>
      [] OTHER -> <<f.out>>

\* A process in which nothing else runs and nothing is allocated.
AloneShared ==
    [heap |-> [a \in Addr |-> FreeBlock], ub |-> {}, crashed |-> FALSE]

\* The results the call of frame f can return when it runs alone.
AloneResults(f) ==
    CASE f.fn = "native_get_greeting" ->
            {Result(o.f, o.s.heap) :
                o \in {x \in Run([Enter("native_get_greeting", "g_malloc")
                                     EXCEPT !.name = f.name],
                                 AloneShared, clock, 1) : x.f.pc = "done"}}
      [] f.fn = "native_get_system_info" ->
            {Result(o.f, o.s.heap) :
                o \in {x \in Run(Enter("native_get_system_info", "si_malloc"),
                                 AloneShared, clock, 1) : x.f.pc = "done"}}
      [] f.fn \in {"native_free_string", "native_free_system_info"} -> {<<>>}
      [] OTHER -> {<<out>> : out \in PureOut(f.args)}

\* No statement of a call touches an allocation of another thread, and a
\* call that returns returns a result it can return when run alone.
C9_Isolated ==
    /\ ub' \cap {"foreign_access", "use_after_free", "bad_free",
                 "heap_overflow"} = {}
    /\ \A t \in Threads :
          thr'[t] # thr[t] =>
              \A a \in Live(heap) : heap[a].owner # t => heap'[a] = heap[a]
    /\ \A t \in Threads :
          (thr'[t].f.pc = "done" /\ thr[t].f.pc # "done") =>
              Result(thr'[t].f, heap') \in AloneResults(thr'[t].f)

C9_Isolation == [][C9_Isolated]_vars

\* A call in progress ends without returning only if it can end so when
\* the rest of it runs with no other thread taking a step.
C9_Uninterrupted ==
    (~crashed /\ crashed') =>
        \A t \in Threads :
            Running(t) =>
                \E x \in Run(thr[t].f, Entry, clock, t) : x.s.crashed

C9_Step == C9_Isolated /\ C9_Uninterrupted

\* C9: under every interleaving of unsynchronised calls from several
\* threads, each releasing only its own handles, every call returns the
\* result it returns when run alone, and no statement of a call reads,
\* writes or frees an allocation of another thread.
C9_ThreadSafe == [][C9_Step]_vars

\* Thread 2 is inside native_get_greeting, past a successful malloc, when
\* thread 1's native_get_system_info stores through the null pointer its
\* failed nested malloc returned and the process traps.
C9_Interrupted ==
    /\ crashed
    /\ thr[1].f.fn = "native_get_system_info"
    /\ thr[2].f.fn = "native_get_greeting"
    /\ thr[2].f.pc = "g_snprintf"
    /\ thr[2].f.greeting # NULL

\* Thread 1 returned a complete record whose allocations are interleaved
\* with an allocation of thread 2, which is still inside a call.
C9_Witness ==
    /\ thr[1].f.fn = "native_get_system_info"
    /\ thr[1].f.pc = "done"
    /\ thr[1].f.allocs = <<1, 3, 4>>
    /\ heap[2].live /\ heap[2].owner = 2
    /\ Running(2)

=============================================================================
